---- MODULE Spec2Model ----
(***************************************************************************)
(* Model of analysis_core.py run as a script: the module-level load of     *)
(* grand_livre_10k.csv, calculate_balance_by_account, calculate_net_income *)
(* and the accounting integrity check of the __main__ block.               *)
(*                                                                         *)
(* An account identifier is a Python str, modelled as a sequence of        *)
(* one-character strings ("0607" is <<"0","6","0","7">>).  Montant is      *)
(* modelled exactly, as an integer number of thousandths of a euro, so     *)
(* that round(x, 2) is a real rounding (to a multiple of 10) and not the   *)
(* identity.  Binary floating-point rounding error of the float64 sums is  *)
(* not modelled.                                                           *)
(***************************************************************************)
EXTENDS Integers, Sequences, FiniteSets, TLC

\* The largest number of records of a ledger.
MaxRecords == 2

\* The largest number of rows of a balance table handed to
\* calculate_net_income on its own.
MaxRows == 2

\* ------------------------------------------------------------------------
\* Python str and int: ordering, int(str), str(int)
\* ------------------------------------------------------------------------

DigitChars == <<"0", "1", "2", "3", "4", "5", "6", "7", "8", "9">>

IsDigit(c) == \E i \in 1..10 : DigitChars[i] = c

DigitVal(c) == (CHOOSE i \in 1..10 : DigitChars[i] = c) - 1

\* The code point of a character: str comparison is by code point.
Ord(c) == IF IsDigit(c) THEN 48 + DigitVal(c) ELSE 120

\* a < b for two str values (lexicographic, by code point).
RECURSIVE StrLess(_, _)
StrLess(a, b) ==
    IF b = <<>> THEN FALSE
    ELSE IF a = <<>> THEN TRUE
    ELSE IF Ord(Head(a)) # Ord(Head(b)) THEN Ord(Head(a)) < Ord(Head(b))
    ELSE StrLess(Tail(a), Tail(b))

\* int(s) raises ValueError unless s is a decimal literal.
IsIntLiteral(s) == s # <<>> /\ \A i \in 1..Len(s) : IsDigit(s[i])

\* int(s) for a decimal literal s.
RECURSIVE ParseInt(_)
ParseInt(s) ==
    IF s = <<>> THEN 0
    ELSE 10 * ParseInt(SubSeq(s, 1, Len(s) - 1)) + DigitVal(s[Len(s)])

\* str(n) for n >= 0: the canonical decimal form, without leading zeros.
RECURSIVE IntToStr(_)
IntToStr(n) ==
    IF n < 10 THEN <<DigitChars[n + 1]>>
    ELSE IntToStr(n \div 10) \o <<DigitChars[(n % 10) + 1]>>

\* Mutant of StartsWith: str.contains(c) in place of str.startswith(c).
StartsWithAnywhere(s, c) == \E i \in 1..Len(s) : s[i] = c

\* s.startswith(c) for a one-character prefix c.
StartsWith(s, c) == s # <<>> /\ Head(s) = c

\* ------------------------------------------------------------------------
\* The ledger
\* ------------------------------------------------------------------------

\* Account identifiers of the modelled ledgers: class 6 and 7 accounts, one
\* written with a leading zero, an account whose numeric order differs from
\* its string order, and one that is not a number.
AccountIds ==
    { <<"9", "9">>, <<"6", "0", "7">>, <<"0", "6", "0", "7">>,
      <<"7", "0", "7">>, <<"6", "x">> }

\* Amounts, in thousandths of a euro (10 is one cent).
Amounts == {6, 10}

Records ==
    [Compte_Debit : AccountIds, Compte_Credit : AccountIds, Montant : Amounts]

\* The ledgers a grand_livre_10k.csv can hold: at least one record.
Ledgers == UNION { [1..n -> Records] : n \in 1..MaxRecords }

\* A Python name (or the file on disk) is modelled as <<>> while it is not
\* bound (the file is absent) and as <<v>> once it holds v.
Unbound == <<>>

Bound(v) == <<v>>

Val(x) == x[1]

\* grand_livre_10k.csv is absent.
NoFile == Unbound

\* ------------------------------------------------------------------------
\* pandas helpers
\* ------------------------------------------------------------------------

RECURSIVE SumSeq(_)
SumSeq(s) == IF s = <<>> THEN 0 ELSE Head(s) + SumSeq(Tail(s))

\* The keys of a set of str in ascending str order (groupby sorts its keys).
RECURSIVE SortedKeys(_)
SortedKeys(S) ==
    IF S = {} THEN <<>>
    ELSE LET m == CHOOSE x \in S : \A y \in S \ {x} : StrLess(x, y)
         IN  <<m>> \o SortedKeys(S \ {m})

\* The elements of sequence s that are not in sequence t, in s's order.
RECURSIVE Missing(_, _)
Missing(s, t) ==
    IF s = <<>> THEN <<>>
    ELSE IF \E i \in 1..Len(t) : t[i] = Head(s) THEN Missing(Tail(s), t)
    ELSE <<Head(s)>> \o Missing(Tail(s), t)

\* df.groupby(col)["Montant"].sum(): the keys in ascending str order and the
\* total of each key.
GroupKeys(df, col) == SortedKeys({ df[i][col] : i \in 1..Len(df) })

GroupSum(df, col, k) ==
    SumSeq([i \in 1..Len(df) |-> IF df[i][col] = k THEN df[i].Montant ELSE 0])

InSeq(x, s) == \E i \in 1..Len(s) : s[i] = x

\* A cell of the concatenated frame: <<v>>, or <<>> for NaN.
NaN == <<>>

\* Mutant of Concat: join="inner", which keeps only the keys of both sides.
ConcatInner(df) ==
    LET dk  == GroupKeys(df, "Compte_Debit")
        ck  == GroupKeys(df, "Compte_Credit")
        idx == SelectSeq(dk, LAMBDA k : InSeq(k, ck))
    IN  [i \in 1..Len(idx) |->
            [Compte       |-> idx[i],
             Total_Debit  |-> <<GroupSum(df, "Compte_Debit", idx[i])>>,
             Total_Credit |-> <<GroupSum(df, "Compte_Credit", idx[i])>>]]

\* pd.concat([debits, credits], axis=1): the union of the two indexes, the
\* debit keys first, and NaN where a side has no such key.
Concat(df) ==
    LET dk  == GroupKeys(df, "Compte_Debit")
        ck  == GroupKeys(df, "Compte_Credit")
        idx == dk \o Missing(ck, dk)
    IN  [i \in 1..Len(idx) |->
            [Compte       |-> idx[i],
             Total_Debit  |-> IF InSeq(idx[i], dk)
                              THEN <<GroupSum(df, "Compte_Debit", idx[i])>>
                              ELSE NaN,
             Total_Credit |-> IF InSeq(idx[i], ck)
                              THEN <<GroupSum(df, "Compte_Credit", idx[i])>>
                              ELSE NaN]]

\* .fillna(0) on one cell.
FillNa(cell) == IF cell = NaN THEN 0 ELSE cell[1]

\* balance_df after lines 35-40: both totals filled with 0 where absent and
\* Final_Balance = Total_Debit - Total_Credit; the index is still the str keys.
BalanceRows(df) ==
    LET c == Concat(df)
    IN  [i \in 1..Len(c) |->
            [Compte        |-> c[i].Compte,
             Total_Debit   |-> FillNa(c[i].Total_Debit),
             Total_Credit  |-> FillNa(c[i].Total_Credit),
             Final_Balance |-> FillNa(c[i].Total_Debit) - FillNa(c[i].Total_Credit)]]

\* index.astype(int) raises ValueError when a key is no integer literal.
RaisesValueError(df) ==
    \E i \in 1..Len(df) :
        \/ ~IsIntLiteral(df[i].Compte_Debit)
        \/ ~IsIntLiteral(df[i].Compte_Credit)

\* index.astype(int) on the rows.
IndexAsInt(rows) ==
    [i \in 1..Len(rows) |-> [rows[i] EXCEPT !.Compte = ParseInt(rows[i].Compte)]]

\* index.astype(str) on the rows.
IndexAsStr(rows) ==
    [i \in 1..Len(rows) |-> [rows[i] EXCEPT !.Compte = IntToStr(rows[i].Compte)]]

\* r comes before or with every row of S in the index order.
IndexLeq(rows, j, S) == \A k \in S : rows[j].Compte <= rows[k].Compte

\* Mutant of SortIndex: the result of sort_index() is dropped, the frame
\* keeps the order of the concatenation.
SortIndexDropped(rows, S) == {rows}

\* sort_index(): every ordering of the rows with ascending integer keys
\* (the default sort is not stable: rows of equal keys come in any order).
RECURSIVE SortIndex(_, _)
SortIndex(rows, S) ==
    IF S = {} THEN {<<>>}
    ELSE UNION { { <<rows[i]>> \o t : t \in SortIndex(rows, S \ {i}) } :
                 i \in { j \in S : IndexLeq(rows, j, S) } }

\* The frames calculate_balance_by_account(df) can return when it does not
\* raise: rows [Compte, Total_Debit, Total_Credit, Final_Balance] in index
\* order.
calculate_balance_by_account(df) ==
    LET ints == IndexAsInt(BalanceRows(df))
    IN  { IndexAsStr(t) : t \in SortIndex(ints, 1..Len(ints)) }

\* round(x, 2) of a value in thousandths: to the nearest multiple of 10,
\* a tie going to the even hundredth.
Round2(x) ==
    LET q == x \div 10
        r == x % 10
    IN  IF r < 5 THEN 10 * q
        ELSE IF r > 5 THEN 10 * (q + 1)
        ELSE IF q % 2 = 0 THEN 10 * q ELSE 10 * (q + 1)

\* The sum of column col over the rows whose index starts with c.
ClassSum(balance_df, c, col) ==
    SumSeq([i \in 1..Len(balance_df) |->
               IF StartsWith(balance_df[i].Compte, c)
               THEN balance_df[i][col] ELSE 0])

calculate_net_income(balance_df) ==
    LET income_expense_df ==
            SelectSeq(balance_df,
                      LAMBDA r : StartsWith(r.Compte, "6") \/ StartsWith(r.Compte, "7"))
        total_products == ClassSum(income_expense_df, "7", "Total_Credit")
        total_charges  == ClassSum(income_expense_df, "6", "Total_Debit")
        net_income     == total_products - total_charges
    IN  [Total_Products |-> Round2(total_products),
         Total_Charges  |-> Round2(total_charges),
         Net_Income     |-> Round2(net_income)]

\* row[col] in balance_sheet.index
InIndex(balance_df, k) == \E i \in 1..Len(balance_df) : balance_df[i].Compte = k

\* GRAND_LIVRE["Montant"].where(<row[col] in balance_sheet.index>).sum()
KnownTotal(df, balance_df, col) ==
    SumSeq([i \in 1..Len(df) |->
               IF InIndex(balance_df, df[i][col]) THEN df[i].Montant ELSE 0])

\* ------------------------------------------------------------------------
\* The run of analysis_core.py
\* ------------------------------------------------------------------------

VARIABLES
    file,                      \* grand_livre_10k.csv: a ledger, or NoFile
    pc,                        \* the statement the run is at
    GRAND_LIVRE,
    balance_sheet,
    income_statement_results,
    total_debits,
    total_credits,
    stdout,                    \* the sections printed so far
    exit_status                \* the exit status, once the run has ended

vars == <<file, pc, GRAND_LIVRE, balance_sheet, income_statement_results,
          total_debits, total_credits, stdout, exit_status>>

Init ==
    /\ file \in {Bound(l) : l \in Ledgers} \cup {NoFile}
    /\ pc = "load"
    /\ GRAND_LIVRE = Unbound
    /\ balance_sheet = Unbound
    /\ income_statement_results = Unbound
    /\ total_debits = Unbound
    /\ total_credits = Unbound
    /\ stdout = <<>>
    /\ exit_status = Unbound

\* Lines 6-9: pd.read_csv succeeds.
LoadLedger ==
    /\ pc = "load"
    /\ file # NoFile
    /\ GRAND_LIVRE' = Bound(Val(file))
    /\ pc' = "balance"
    /\ UNCHANGED <<file, balance_sheet, income_statement_results, total_debits,
                   total_credits, stdout, exit_status>>

\* Mutant of LoadMissing: the diagnostic is printed but the run goes on, with
\* an empty ledger.
LoadMissingGoesOn ==
    /\ pc = "load"
    /\ file = NoFile
    /\ stdout' = Append(stdout, "Error: grand_livre_10k.csv not found")
    /\ GRAND_LIVRE' = Bound(<<>>)
    /\ pc' = "balance"
    /\ UNCHANGED <<file, balance_sheet, income_statement_results,
                   total_debits, total_credits, exit_status>>

\* Lines 10-13: FileNotFoundError: the diagnostic, then exit(1).
LoadMissing ==
    /\ pc = "load"
    /\ file = NoFile
    /\ stdout' = Append(stdout, "Error: grand_livre_10k.csv not found")
    /\ exit_status' = Bound(1)
    /\ pc' = "exited"
    /\ UNCHANGED <<file, GRAND_LIVRE, balance_sheet, income_statement_results,
                   total_debits, total_credits>>

\* Line 93, the call returns.
RunBalance ==
    /\ pc = "balance"
    /\ ~RaisesValueError(Val(GRAND_LIVRE))
    /\ \E t \in calculate_balance_by_account(Val(GRAND_LIVRE)) :
           balance_sheet' = Bound(t)
    /\ pc' = "income"
    /\ UNCHANGED <<file, GRAND_LIVRE, income_statement_results, total_debits,
                   total_credits, stdout, exit_status>>

\* Mutant of BalanceRaises: the ValueError is caught and an empty balance
\* table stands in for the result.
BalanceRaisesCaught ==
    /\ pc = "balance"
    /\ RaisesValueError(Val(GRAND_LIVRE))
    /\ balance_sheet' = Bound(<<>>)
    /\ pc' = "income"
    /\ UNCHANGED <<file, GRAND_LIVRE, income_statement_results, total_debits,
                   total_credits, stdout, exit_status>>

\* Line 93, the call raises ValueError (line 43), which nothing catches: the
\* interpreter ends the run with a traceback and status 1.
BalanceRaises ==
    /\ pc = "balance"
    /\ RaisesValueError(Val(GRAND_LIVRE))
    /\ exit_status' = Bound(1)
    /\ pc' = "raised"
    /\ UNCHANGED <<file, GRAND_LIVRE, balance_sheet, income_statement_results,
                   total_debits, total_credits, stdout>>

\* Line 94.
RunNetIncome ==
    /\ pc = "income"
    /\ income_statement_results' = Bound(calculate_net_income(Val(balance_sheet)))
    /\ pc' = "print_balance"
    /\ UNCHANGED <<file, GRAND_LIVRE, balance_sheet, total_debits, total_credits,
                   stdout, exit_status>>

\* Lines 96-97.
PrintBalance ==
    /\ pc = "print_balance"
    /\ stdout' = Append(stdout, "--- General Balance (Synthesis) ---")
    /\ pc' = "print_income"
    /\ UNCHANGED <<file, GRAND_LIVRE, balance_sheet, income_statement_results,
                   total_debits, total_credits, exit_status>>

\* Lines 99-106.
PrintIncome ==
    /\ pc = "print_income"
    /\ stdout' = Append(stdout, "--- Net Income Calculation ---")
    /\ pc' = "integrity"
    /\ UNCHANGED <<file, GRAND_LIVRE, balance_sheet, income_statement_results,
                   total_debits, total_credits, exit_status>>

\* Lines 109-126.
IntegrityCheck ==
    /\ pc = "integrity"
    /\ total_debits' =
           Bound(KnownTotal(Val(GRAND_LIVRE), Val(balance_sheet), "Compte_Debit"))
    /\ total_credits' =
           Bound(KnownTotal(Val(GRAND_LIVRE), Val(balance_sheet), "Compte_Credit"))
    /\ pc' = "print_integrity"
    /\ UNCHANGED <<file, GRAND_LIVRE, balance_sheet, income_statement_results,
                   stdout, exit_status>>

\* Lines 128-131, and the normal end of the script.
PrintIntegrity ==
    /\ pc = "print_integrity"
    /\ stdout' = Append(stdout, "--- Accounting Integrity Check ---")
    /\ exit_status' = Bound(0)
    /\ pc' = "done"
    /\ UNCHANGED <<file, GRAND_LIVRE, balance_sheet, income_statement_results,
                   total_debits, total_credits>>

Next ==
    \/ LoadLedger
    \/ LoadMissing
    \/ RunBalance
    \/ BalanceRaises
    \/ RunNetIncome
    \/ PrintBalance
    \/ PrintIncome
    \/ IntegrityCheck
    \/ PrintIntegrity

Spec == Init /\ [][Next]_vars

\* calculate_net_income called on any balance table: frames of at most MaxRows
\* rows, whatever their index (a non-canonical or non-numeric key, the same
\* key twice) and whatever their totals.
TableTotals == {0, 4, 6, 10}

TableRows ==
    { [Compte |-> k, Total_Debit |-> d, Total_Credit |-> c, Final_Balance |-> d - c] :
          k \in AccountIds, d \in TableTotals, c \in TableTotals }

Tables == UNION { [1..n -> TableRows] : n \in 0..MaxRows }

InitNetIncome ==
    /\ file = NoFile
    /\ pc = "income"
    /\ GRAND_LIVRE = Unbound
    /\ balance_sheet \in { Bound(t) : t \in Tables }
    /\ income_statement_results = Unbound
    /\ total_debits = Unbound
    /\ total_credits = Unbound
    /\ stdout = <<>>
    /\ exit_status = Unbound

SpecNetIncome == InitNetIncome /\ [][RunNetIncome]_vars

\* ------------------------------------------------------------------------
\* What the properties are stated with
\* ------------------------------------------------------------------------

\* The sum of one column of a frame.
ColumnTotal(t, col) == SumSeq([i \in 1..Len(t) |-> t[i][col]])

\* The account identifiers that appear on either side of a record.
LedgerAccounts(df) ==
    { df[i].Compte_Debit : i \in 1..Len(df) } \cup
    { df[i].Compte_Credit : i \in 1..Len(df) }

\* The index of a frame, as a set.
IndexSet(t) == { t[i].Compte : i \in 1..Len(t) }

\* The sum of Montant over the records whose column col is account k.
SideTotal(df, col, k) ==
    SumSeq([i \in 1..Len(df) |-> IF df[i][col] = k THEN df[i].Montant ELSE 0])

\* Every identifier of the ledger is a string of decimal digits.
AllNumeric(df) ==
    \A k \in LedgerAccounts(df) :
        /\ Len(k) > 0
        /\ \A i \in 1..Len(k) : k[i] \in { DigitChars[d] : d \in 1..10 }

\* The aggregator has returned.
Aggregated == balance_sheet # Unbound

\* ------------------------------------------------------------------------
\* C1
\* ------------------------------------------------------------------------

\* C1: in the output of calculate_balance_by_account, the sum of Total_Debit
\* over all accounts equals the sum of Total_Credit over all accounts, and
\* both equal the sum of Montant over all records of the ledger.
C1_GlobalDoubleEntry ==
    Aggregated =>
        /\ ColumnTotal(Val(balance_sheet), "Total_Debit")
             = ColumnTotal(Val(GRAND_LIVRE), "Montant")
        /\ ColumnTotal(Val(balance_sheet), "Total_Credit")
             = ColumnTotal(Val(GRAND_LIVRE), "Montant")

\* A ledger of two records over at least three accounts has been aggregated.
C1_Witness ==
    /\ Aggregated
    /\ Len(Val(GRAND_LIVRE)) = 2
    /\ Len(Val(balance_sheet)) >= 3

\* ------------------------------------------------------------------------
\* C2
\* ------------------------------------------------------------------------

\* C2: for every account of the output, Total_Debit is the sum of Montant over
\* the records whose Compte_Debit is that account, Total_Credit the sum over
\* the records whose Compte_Credit is that account, and Final_Balance is
\* Total_Debit - Total_Credit.
C2_PerAccountTotals ==
    Aggregated =>
        \A i \in 1..Len(Val(balance_sheet)) :
            LET r == Val(balance_sheet)[i]
            IN  /\ r.Total_Debit
                     = SideTotal(Val(GRAND_LIVRE), "Compte_Debit", r.Compte)
                /\ r.Total_Credit
                     = SideTotal(Val(GRAND_LIVRE), "Compte_Credit", r.Compte)
                /\ r.Final_Balance = r.Total_Debit - r.Total_Credit

\* ------------------------------------------------------------------------
\* C3
\* ------------------------------------------------------------------------

\* C3: the output has exactly one entry for each account identifier that
\* appears as Compte_Debit or Compte_Credit of a record and no other entry;
\* an account that appears on one side only has 0 as its other total.
C3_OneEntryPerAccount ==
    Aggregated =>
        LET t  == Val(balance_sheet)
            df == Val(GRAND_LIVRE)
        IN  /\ IndexSet(t) = LedgerAccounts(df)
            /\ \A i, j \in 1..Len(t) : t[i].Compte = t[j].Compte => i = j
            /\ \A i \in 1..Len(t) :
                   /\ (\A n \in 1..Len(df) : df[n].Compte_Debit # t[i].Compte)
                         => t[i].Total_Debit = 0
                   /\ (\A n \in 1..Len(df) : df[n].Compte_Credit # t[i].Compte)
                         => t[i].Total_Credit = 0

\* ------------------------------------------------------------------------
\* C4
\* ------------------------------------------------------------------------

\* The integer value of a string of decimal digits.
RECURSIVE NumericValue(_)
NumericValue(k) ==
    IF k = <<>> THEN 0
    ELSE 10 * NumericValue(SubSeq(k, 1, Len(k) - 1))
         + (CHOOSE d \in 0..9 : DigitChars[d + 1] = k[Len(k)])

\* C4: the rows of the output are in ascending order of the integer value of
\* their account identifiers.
C4_NumericOrder ==
    Aggregated =>
        \A i, j \in 1..Len(Val(balance_sheet)) :
            i < j => NumericValue(Val(balance_sheet)[i].Compte)
                       <= NumericValue(Val(balance_sheet)[j].Compte)

\* The output holds "99" before "607": the numeric order, where the string
\* order puts "607" first.
C4_Witness ==
    /\ Aggregated
    /\ \E i, j \in 1..Len(Val(balance_sheet)) :
           /\ i < j
           /\ Val(balance_sheet)[i].Compte = <<"9", "9">>
           /\ Val(balance_sheet)[j].Compte = <<"6", "0", "7">>
           /\ StrLess(Val(balance_sheet)[j].Compte, Val(balance_sheet)[i].Compte)

\* ------------------------------------------------------------------------
\* C5
\* ------------------------------------------------------------------------

\* C5: every account identifier string of the input ledger (one with leading
\* zeros included) is the output key of its account: the output holds a row
\* under that same string, with that account's totals.
C5_OriginalStringKeys ==
    Aggregated =>
        \A k \in LedgerAccounts(Val(GRAND_LIVRE)) :
            \E i \in 1..Len(Val(balance_sheet)) :
                Val(balance_sheet)[i].Compte = k

\* ------------------------------------------------------------------------
\* C6
\* ------------------------------------------------------------------------

\* The sum of column col over the rows whose identifier has c as its first
\* character.
ClassTotal(t, c, col) ==
    SumSeq([i \in 1..Len(t) |->
               IF Len(t[i].Compte) > 0 /\ t[i].Compte[1] = c THEN t[i][col] ELSE 0])

\* No account of class 6 or 7 is in the table.
NoIncomeExpenseAccount(t) ==
    \A i \in 1..Len(t) :
        Len(t[i].Compte) > 0 => t[i].Compte[1] \notin {"6", "7"}

\* x (thousandths) is a whole number of hundredths.
WholeCents(x) == x % 10 = 0

\* The whole number of hundredths nearest to x, the even one on a tie.
NearestCent(x) ==
    CHOOSE c \in (x - 10)..(x + 10) :
        /\ WholeCents(c)
        /\ 2 * (IF x > c THEN x - c ELSE c - x) <= 10
        /\ 2 * (IF x > c THEN x - c ELSE c - x) = 10 => (c \div 10) % 2 = 0

\* C6 as stated: Total_Products is the sum of Total_Credit over the accounts
\* whose first character is '7', Total_Charges the sum of Total_Debit over
\* those whose first character is '6', Net_Income is Total_Products minus
\* Total_Charges, and all three are 0 when there is no class 6 or 7 account.
C6_NetIncomeByClass ==
    income_statement_results # Unbound =>
        LET t == Val(balance_sheet)
            r == Val(income_statement_results)
        IN  /\ r.Total_Products = ClassTotal(t, "7", "Total_Credit")
            /\ r.Total_Charges = ClassTotal(t, "6", "Total_Debit")
            /\ r.Net_Income = r.Total_Products - r.Total_Charges
            /\ NoIncomeExpenseAccount(t) =>
                   r = [Total_Products |-> 0, Total_Charges |-> 0, Net_Income |-> 0]

\* C6 as amended: Total_Products is the sum of Total_Credit over the class 7
\* accounts rounded to 2 decimals, Total_Charges the sum of Total_Debit over
\* the class 6 accounts rounded to 2 decimals, Net_Income the difference of
\* the two unrounded sums rounded to 2 decimals; when both sums have at most
\* 2 decimals the three values are those sums and their difference exactly;
\* all three are 0 when there is no class 6 or 7 account.
C6_NetIncomeByClassRounded ==
    income_statement_results # Unbound =>
        LET t  == Val(balance_sheet)
            r  == Val(income_statement_results)
            p  == ClassTotal(t, "7", "Total_Credit")
            ch == ClassTotal(t, "6", "Total_Debit")
        IN  /\ r.Total_Products = NearestCent(p)
            /\ r.Total_Charges = NearestCent(ch)
            /\ r.Net_Income = NearestCent(p - ch)
            /\ (WholeCents(p) /\ WholeCents(ch)) =>
                   /\ r.Total_Products = p
                   /\ r.Total_Charges = ch
                   /\ r.Net_Income = r.Total_Products - r.Total_Charges
            /\ NoIncomeExpenseAccount(t) =>
                   r = [Total_Products |-> 0, Total_Charges |-> 0, Net_Income |-> 0]

\* The income of a table with a class 7 and a class 6 account, each with a
\* debit and a credit total, whose sums are whole cents.
C6_Witness ==
    /\ income_statement_results # Unbound
    /\ \E i, j \in 1..Len(Val(balance_sheet)) :
           LET a == Val(balance_sheet)[i]
               b == Val(balance_sheet)[j]
           IN  /\ a.Compte = <<"7", "0", "7">>
               /\ b.Compte = <<"6", "0", "7">>
               /\ a.Total_Credit = 10 /\ a.Total_Debit = 4
               /\ b.Total_Debit = 10 /\ b.Total_Credit = 6
    /\ Val(income_statement_results) =
           [Total_Products |-> 10, Total_Charges |-> 10, Net_Income |-> 0]

\* ------------------------------------------------------------------------
\* C7
\* ------------------------------------------------------------------------

\* C7: in the integrity check every record's debit and credit account is a
\* key of the balance sheet, so the known debits and the known credits both
\* equal the sum of Montant over the whole ledger and their difference is 0.
C7_IntegrityDifferenceZero ==
    total_debits # Unbound =>
        /\ Val(total_debits) = ColumnTotal(Val(GRAND_LIVRE), "Montant")
        /\ Val(total_credits) = ColumnTotal(Val(GRAND_LIVRE), "Montant")
        /\ Val(total_debits) - Val(total_credits) = 0
        /\ LedgerAccounts(Val(GRAND_LIVRE)) \subseteq IndexSet(Val(balance_sheet))

\* ------------------------------------------------------------------------
\* C8
\* ------------------------------------------------------------------------

\* C8: when grand_livre_10k.csv is not found, the run prints the diagnostic
\* and halts with a failure status before any computation: no balance table,
\* income figure or integrity total is ever computed or printed.
C8_MissingInputHalts ==
    file = NoFile =>
        /\ GRAND_LIVRE = Unbound
        /\ balance_sheet = Unbound
        /\ income_statement_results = Unbound
        /\ total_debits = Unbound
        /\ total_credits = Unbound
        /\ pc \in {"load", "exited"}
        /\ pc = "load" => stdout = <<>> /\ exit_status = Unbound
        /\ pc = "exited" =>
               /\ stdout = <<"Error: grand_livre_10k.csv not found">>
               /\ exit_status = Bound(1)
               /\ ~ENABLED Next

\* The run has ended on the missing file.
C8_Witness == file = NoFile /\ pc = "exited"

\* ------------------------------------------------------------------------
\* C10
\* ------------------------------------------------------------------------

\* C10: if a Compte_Debit or Compte_Credit of the ledger is not parseable as
\* an integer, calculate_balance_by_account raises and nothing catches it: no
\* balance table is ever bound, the run ends with a failure status, and no
\* income figure or integrity section is computed or printed.
C10_MalformedAccountIsFatal ==
    (file # NoFile /\ ~AllNumeric(Val(file))) =>
        /\ balance_sheet = Unbound
        /\ income_statement_results = Unbound
        /\ total_debits = Unbound
        /\ total_credits = Unbound
        /\ stdout = <<>>
        /\ pc \in {"load", "balance", "raised"}
        /\ pc = "raised" => exit_status = Bound(1) /\ ~ENABLED Next
        /\ pc # "raised" => exit_status = Unbound

\* The aggregator has raised on a ledger whose other records are well formed.
C10_Witness ==
    /\ pc = "raised"
    /\ Len(Val(GRAND_LIVRE)) = 2
    /\ Val(GRAND_LIVRE)[1].Compte_Debit = <<"6", "0", "7">>
    /\ Val(GRAND_LIVRE)[1].Compte_Credit = <<"7", "0", "7">>
    /\ Val(GRAND_LIVRE)[2].Compte_Credit = <<"6", "x">>

====
